---- MODULE Spec2Model ----
(***************************************************************************)
(* Model of src/main.py: a Streamlit script that optionally translates the *)
(* text of a form and converts it to speech.  Every interaction with a     *)
(* widget re-runs the script from the top; a click on "Convert to Speech"  *)
(* re-runs it with convert_button = True, which runs the handler of lines  *)
(* 296-356.  The handler is cut at its two blocking stages (translation,   *)
(* synthesis); the three external libraries (langdetect, deep_translator,  *)
(* gTTS) are the environment and answer nondeterministically.              *)
(***************************************************************************)
EXTENDS Integers, Sequences, FiniteSets, TLC

VARIABLES
    text_input,          \* st.text_area value (line 271), a string
    enable_translation,  \* checkbox (line 203)
    source_lang,         \* "From Language" selection as a code (line 216)
    lang_code,           \* "To Language"/"Output Language" code (line 227)
    selected_accent,     \* "Accent" selection (line 238), kept by the widget
    slow_speech,         \* checkbox (line 247)
    languages,           \* result of get_supported_languages() (line 198)
    tld,                 \* voice variant computed by the run (lines 230-244)
    pc,                  \* position of the submission
    translated_text,     \* handler local (lines 303, 308, 317)
    trans_result,        \* the triple returned by translate_text (line 308)
    synth_result,        \* the triple returned by convert_text_to_speech (329)
    calls,               \* external calls made by this submission, in order
    rendered             \* what the handler has put on the page

vars == <<text_input, enable_translation, source_lang, lang_code,
          selected_accent, slow_speech, languages, tld, pc, translated_text,
          trans_result, synth_result, calls, rendered>>

----------------------------------------------------------------------------
(* Strings.  A string is the sequence of its runs of equal characters, so  *)
(* that a text of 5001 characters is a short value.                        *)

\* the limit of lines 282 and 299
MaxChars == 5000

\* longest form text, in runs
MaxRuns == 2

Chars == {" ", "a"}
RunLens == {1, MaxChars}
Runs == [c : Chars, n : RunLens]
Texts == UNION {[1..k -> Runs] : k \in 0..MaxRuns}

RECURSIVE PyLen(_)
\* len(s)
PyLen(s) == IF s = <<>> THEN 0 ELSE Head(s).n + PyLen(Tail(s))

\* s.strip(): leading and trailing whitespace runs removed
RECURSIVE LStrip(_)
LStrip(s) == IF s # <<>> /\ Head(s).c = " " THEN LStrip(Tail(s)) ELSE s

RECURSIVE RStrip(_)
RStrip(s) ==
    IF s # <<>> /\ s[Len(s)].c = " " THEN RStrip(SubSeq(s, 1, Len(s) - 1)) ELSE s

Strip(s) == RStrip(LStrip(s))

\* Python's None where a string (a code, a message) is expected
None == "None"

\* an optional text: a str or None
Str(s) == [none |-> FALSE, runs |-> s]
NoneText == [none |-> TRUE, runs |-> <<>>]

\* bool(x) of an optional string, as `if detected_lang:` and `if error:` use it
Truthy(x) == x # None /\ x # ""

\* bool(x) of an optional text
TruthyText(t) == ~t.none /\ t.runs # <<>>

\* no triple returned yet
NoResult == [called |-> FALSE]

----------------------------------------------------------------------------
(* Catalogs                                                                *)

\* keys of TRANSLATION_LANGUAGES
TRANSLATION_LANGUAGES ==
    {"auto", "en", "es", "fr", "de", "it", "pt", "ru", "ja", "ko", "zh-cn",
     "zh-tw", "ar", "hi", "nl", "pl", "tr", "vi", "th", "id", "sv", "no", "da",
     "fi", "el", "he", "bn", "ta", "te", "ur", "fa", "ro", "cs", "hu", "uk"}

\* keys of the built-in mapping get_supported_languages() falls back to
FallbackLanguages ==
    {"en", "es", "fr", "de", "it", "pt", "ru", "ja", "ko", "zh-cn", "hi", "ar"}

\* what tts_langs() answers when it answers: the provider's list, here the
\* built-in codes and one code the fallback lacks
ProviderLanguages == FallbackLanguages \cup {"zh-tw"}

\* outcomes of tts_langs()
ListOutcomes == {"ok", "raise"}

get_supported_languages(lo) ==
    IF lo = "ok" THEN ProviderLanguages ELSE FallbackLanguages

\* index 0 of the options sorted by display name: "Arabic" sorts first in
\* both lists
DefaultLang(langs) == "ar"

\* the codes the modelled user picks among
SourceChoices == {"auto", "en", "zh-cn"}
TargetChoices == {"ar", "en", "zh-cn", "zh-tw"}

accent_options ==
    [a \in {"US English", "UK English", "Canadian English",
            "Australian English", "Indian English"} |->
        CASE a = "US English" -> "com"
          [] a = "UK English" -> "co.uk"
          [] a = "Canadian English" -> "ca"
          [] a = "Australian English" -> "com.au"
          [] a = "Indian English" -> "co.in"]

\* a variant that follows the accent widget whatever the language
Tld_KeepAccent(lang, accent) == accent_options[accent]

\* lines 230-244: the accent applies to English only
Tld(lang, accent) == IF lang = "en" THEN accent_options[accent] ELSE "com"

----------------------------------------------------------------------------
(* The environment: what the three libraries can answer                    *)

\* str(e) of the exceptions drawn: an exception without arguments has the
\* empty message
Messages == {"", "boom"}

\* codes langdetect answers in the model
DetectCodes == {"en", "ar"}

\* detect(text): a code, nothing, or an exception
DetectOutcomes ==
    {[kind |-> "ok", lang |-> l] : l \in DetectCodes}
        \cup {[kind |-> "none", lang |-> None], [kind |-> "raise", lang |-> None]}

\* strings the translation provider answers in the model: "" and "b"
TranslatedTexts == {<<>>, <<[c |-> "b", n |-> 1]>>}

\* GoogleTranslator(...).translate(text): a string, None, or an exception
TransOutcomes ==
    {[kind |-> "return", val |-> Str(t), msg |-> None] : t \in TranslatedTexts}
        \cup {[kind |-> "return", val |-> NoneText, msg |-> None]}
        \cup {[kind |-> "raise", val |-> NoneText, msg |-> m] : m \in Messages}

\* byte lengths of the audio gTTS answers in the model
AudioLens == {1536}

\* gTTS(text=...).write_to_fp(...): gTTS asserts a non-empty text ("No text
\* to speak"); otherwise it writes bytes or raises
SynthOutcomes(text) ==
    IF ~TruthyText(text)
    THEN {[kind |-> "raise", len |-> 0, msg |-> "No text to speak"]}
    ELSE {[kind |-> "ok", len |-> n, msg |-> None] : n \in AudioLens}
             \cup {[kind |-> "raise", len |-> 0, msg |-> m] : m \in Messages}

----------------------------------------------------------------------------
(* The pipeline functions                                                  *)

\* lines 125-131: any exception of detect() becomes None
detect_language(d) == IF d.kind = "ok" THEN d.lang ELSE None

\* a resolver without the fallback of line 144
ResolveSource_NoFallback(src, d) ==
    IF src = "auto" THEN detect_language(d) ELSE src

\* lines 138-144: the source language translate_text works with
ResolveSource(src, d) ==
    IF src = "auto"
    THEN IF Truthy(detect_language(d)) THEN detect_language(d) ELSE "en"
    ELSE src

\* a translate_text without the test of line 147
SameLanguage_Never(src, tgt) == FALSE

\* line 147: "Don't translate if source and target are the same"
SameLanguage(src, tgt) == src = tgt

\* lines 151-154: the provider's spelling of the Chinese variants
NormalizeTarget(tgt) ==
    IF tgt = "zh-cn" THEN "zh-CN" ELSE IF tgt = "zh-tw" THEN "zh-TW" ELSE tgt

\* the call of detect() that line 140 makes, when it makes it
DetectCalls(text, src, d) ==
    IF src = "auto"
    THEN <<[fn |-> "detect", args |-> [text |-> text], out |-> d]>>
    ELSE <<>>

\* lines 134-163.  d and p are the answers detect() and the provider give if
\* asked.  The result is the returned triple (text, src, err) and the
\* external calls made.
translate_text(text, src, tgt, d, p) ==
    LET s == ResolveSource(src, d)
        dc == DetectCalls(text, src, d)
        call == [fn |-> "translate",
                 args |-> [source |-> s, target |-> NormalizeTarget(tgt),
                           text |-> text],
                 out |-> p]
    IN  IF SameLanguage(s, tgt)
        THEN [text |-> Str(text), src |-> s, err |-> None, calls |-> dc]
        ELSE IF p.kind = "return"
        THEN [text |-> p.val, src |-> s, err |-> None, calls |-> dc \o <<call>>]
        ELSE [text |-> NoneText, src |-> None, err |-> p.msg,
              calls |-> dc \o <<call>>]

\* an optional byte string, by its length
Bytes(n) == [none |-> FALSE, len |-> n]
NoneBytes == [none |-> TRUE, len |-> 0]

\* an optional number of kilobytes, len / 1024, as a fraction
KB(n) == [none |-> FALSE, num |-> n, den |-> 1024]
NoneKB == [none |-> TRUE, num |-> 0, den |-> 1]

\* lines 166-186.  s is the answer of gTTS.
convert_text_to_speech(text, lang, slow, variant, s) ==
    LET call == [fn |-> "synthesize",
                 args |-> [text |-> text, lang |-> lang, slow |-> slow,
                           tld |-> variant],
                 out |-> s]
    IN  IF s.kind = "ok"
        THEN [audio |-> Bytes(s.len), size |-> KB(s.len), err |-> None,
              calls |-> <<call>>]
        ELSE [audio |-> NoneBytes, size |-> NoneKB, err |-> s.msg,
              calls |-> <<call>>]

----------------------------------------------------------------------------
(* The script                                                              *)

\* no submission is running: the page waits for the user
Resting == {"Idle", "Done", "Failed", "Crashed"}

\* a validation without the strip() of line 297
IsEmptyInput_NoStrip(text) == text = <<>>

\* line 297: `not text_input or not text_input.strip()`
IsEmptyInput(text) == text = <<>> \/ Strip(text) = <<>>

\* line 299: `char_count > 5000`
IsTooLong(text) == PyLen(text) > MaxChars

\* a handler without the test of line 306
StageAfterValidation_AlwaysTranslate(enabled) == "Translating"

\* lines 302-306: the stage that follows a successful validation
StageAfterValidation(enabled) ==
    IF enabled THEN "Translating" ELSE "Synthesizing"

\* a run starts with an empty page and fresh locals
FreshRun ==
    /\ translated_text' = NoneText
    /\ trans_result' = NoResult
    /\ synth_result' = NoResult
    /\ calls' = <<>>
    /\ rendered' = {}

\* lines 194-247: the sidebar of a run in which the language widget holds
\* `lang` and the accent widget `accent`.  A selection that is no option of
\* this run's list falls back to index 0.
Sidebar(lo, lang, accent) ==
    /\ languages' = get_supported_languages(lo)
    /\ lang_code' = IF lang \in languages' THEN lang ELSE DefaultLang(languages')
    /\ tld' = Tld(lang_code', accent)

Init ==
    /\ text_input = <<>>
    /\ enable_translation = FALSE
    /\ source_lang = "auto"
    /\ selected_accent = "US English"
    /\ slow_speech = FALSE
    /\ \E lo \in ListOutcomes : languages = get_supported_languages(lo)
    /\ lang_code = DefaultLang(languages)
    /\ tld = Tld(lang_code, selected_accent)
    /\ pc = "Idle"
    /\ translated_text = NoneText
    /\ trans_result = NoResult
    /\ synth_result = NoResult
    /\ calls = <<>>
    /\ rendered = {}

\* the user edits the text area (line 271); the script re-runs
EnterText ==
    /\ pc \in Resting
    /\ \E t \in Texts : text_input' = t
    /\ \E lo \in ListOutcomes : Sidebar(lo, lang_code, selected_accent)
    /\ pc' = "Idle"
    /\ FreshRun
    /\ UNCHANGED <<enable_translation, source_lang, selected_accent, slow_speech>>

\* the user ticks or unticks "Enable Translation" (line 203)
ToggleTranslation ==
    /\ pc \in Resting
    /\ enable_translation' = ~enable_translation
    /\ \E lo \in ListOutcomes : Sidebar(lo, lang_code, selected_accent)
    /\ pc' = "Idle"
    /\ FreshRun
    /\ UNCHANGED <<text_input, source_lang, selected_accent, slow_speech>>

\* the user picks a "From Language" (lines 206-216), shown only with
\* translation enabled
SelectSource ==
    /\ pc \in Resting
    /\ enable_translation
    /\ \E s \in SourceChoices \cap TRANSLATION_LANGUAGES : source_lang' = s
    /\ \E lo \in ListOutcomes : Sidebar(lo, lang_code, selected_accent)
    /\ pc' = "Idle"
    /\ FreshRun
    /\ UNCHANGED <<text_input, enable_translation, selected_accent, slow_speech>>

\* the user picks a "To Language"/"Output Language" among the options the
\* page shows (lines 219-227)
SelectLang ==
    /\ pc \in Resting
    /\ \E c \in TargetChoices \cap languages, lo \in ListOutcomes :
           Sidebar(lo, c, selected_accent)
    /\ pc' = "Idle"
    /\ FreshRun
    /\ UNCHANGED <<text_input, enable_translation, source_lang, selected_accent,
                   slow_speech>>

\* the user picks an "Accent" (lines 230-242), shown only for English
SelectAccent ==
    /\ pc \in Resting
    /\ lang_code = "en"
    /\ \E a \in DOMAIN accent_options :
           /\ selected_accent' = a
           /\ \E lo \in ListOutcomes : Sidebar(lo, lang_code, a)
    /\ pc' = "Idle"
    /\ FreshRun
    /\ UNCHANGED <<text_input, enable_translation, source_lang, slow_speech>>

\* the user ticks or unticks "Slow Speech" (line 247)
ToggleSlow ==
    /\ pc \in Resting
    /\ slow_speech' = ~slow_speech
    /\ \E lo \in ListOutcomes : Sidebar(lo, lang_code, selected_accent)
    /\ pc' = "Idle"
    /\ FreshRun
    /\ UNCHANGED <<text_input, enable_translation, source_lang, selected_accent>>

\* lines 292-294: "Clear Text" is shown for a non-empty text and only
\* re-runs the script
ClearText ==
    /\ pc \in Resting
    /\ text_input # <<>>
    /\ \E lo \in ListOutcomes : Sidebar(lo, lang_code, selected_accent)
    /\ pc' = "Idle"
    /\ FreshRun
    /\ UNCHANGED <<text_input, enable_translation, source_lang, selected_accent,
                   slow_speech>>

\* line 290: "Convert to Speech" re-runs the script with convert_button True
ClickConvert ==
    /\ pc \in Resting
    /\ \E lo \in ListOutcomes : Sidebar(lo, lang_code, selected_accent)
    /\ pc' = "Validating"
    /\ FreshRun
    /\ UNCHANGED <<text_input, enable_translation, source_lang, selected_accent,
                   slow_speech>>

\* lines 296-304
Validate ==
    /\ pc = "Validating"
    /\ IF IsEmptyInput(text_input)
       THEN /\ rendered' = rendered \cup {"error: enter some text"}
            /\ pc' = "Failed"
            /\ UNCHANGED translated_text
       ELSE IF IsTooLong(text_input)
       THEN /\ rendered' = rendered \cup {"error: text too long"}
            /\ pc' = "Failed"
            /\ UNCHANGED translated_text
       ELSE /\ translated_text' = Str(text_input)
            /\ pc' = StageAfterValidation(enable_translation)
            /\ UNCHANGED rendered
    /\ UNCHANGED <<text_input, enable_translation, source_lang, lang_code,
                   selected_accent, slow_speech, languages, tld, trans_result,
                   synth_result, calls>>

\* lines 306-325
Translate ==
    /\ pc = "Translating"
    /\ \E d \in DetectOutcomes, p \in TransOutcomes :
         LET r == translate_text(text_input, source_lang, lang_code, d, p)
         IN  /\ trans_result' = [called |-> TRUE, text |-> r.text,
                                 src |-> r.src, err |-> r.err]
             /\ calls' = calls \o r.calls
             /\ IF Truthy(r.err)
                THEN /\ rendered' = rendered \cup
                           {"error: translation error", "info: converting original text"}
                     /\ translated_text' = Str(text_input)
                ELSE /\ rendered' = rendered \cup
                           {"success: translation", "translated text"}
                     /\ translated_text' = r.text
    /\ pc' = "Synthesizing"
    /\ UNCHANGED <<text_input, enable_translation, source_lang, lang_code,
                   selected_accent, slow_speech, languages, tld, synth_result>>

\* lines 328-356.  The f-string of line 348 raises TypeError for a file_size
\* of None, and line 352 AttributeError for a translated_text of None; nothing
\* catches them.
Synthesize ==
    /\ pc = "Synthesizing"
    /\ \E s \in SynthOutcomes(translated_text) :
         LET r == convert_text_to_speech(translated_text, lang_code, slow_speech,
                                         tld, s)
         IN  /\ synth_result' = [called |-> TRUE, audio |-> r.audio,
                                 size |-> r.size, err |-> r.err]
             /\ calls' = calls \o r.calls
             /\ IF Truthy(r.err)
                THEN /\ rendered' = rendered \cup
                           {"error: synthesis error", "info: check connection"}
                     /\ pc' = "Failed"
                ELSE IF r.size.none
                THEN /\ rendered' = rendered \cup
                           {"success: conversion", "audio player"}
                     /\ pc' = "Crashed"
                ELSE IF translated_text.none
                THEN /\ rendered' = rendered \cup
                           {"success: conversion", "audio player",
                            "metric: file size", "metric: output language"}
                     /\ pc' = "Crashed"
                ELSE /\ rendered' = rendered \cup
                           {"success: conversion", "audio player",
                            "metric: file size", "metric: output language",
                            "metric: duration", "download link"}
                     /\ pc' = "Done"
    /\ UNCHANGED <<text_input, enable_translation, source_lang, lang_code,
                   selected_accent, slow_speech, languages, tld, translated_text,
                   trans_result>>

Next ==
    \/ EnterText
    \/ ToggleTranslation
    \/ SelectSource
    \/ SelectLang
    \/ SelectAccent
    \/ ToggleSlow
    \/ ClearText
    \/ ClickConvert
    \/ Validate
    \/ Translate
    \/ Synthesize

Spec == Init /\ [][Next]_vars

----------------------------------------------------------------------------
(* Properties                                                              *)

\* the external calls of this submission to one library, in order
CallsOf(fn) == SelectSeq(calls, LAMBDA c : c.fn = fn)

\* the submission is over
Ended == pc \in {"Done", "Failed", "Crashed"}

\* the form text is one the validation has to reject
InvalidInput ==
    \/ Len(text_input) = 0
    \/ \A i \in 1..Len(text_input) : text_input[i].c = " "
    \/ PyLen(text_input) > 5000

\* the source language the run has to work with, read off the form and the
\* answer detect() gave
ResolvedFromLog ==
    IF source_lang # "auto" THEN source_lang
    ELSE IF CallsOf("detect") # <<>> /\ CallsOf("detect")[1].out.kind = "ok"
    THEN CallsOf("detect")[1].out.lang
    ELSE "en"

\* the rank of a library in the pipeline
StageRank(fn) ==
    CASE fn = "detect" -> 1 [] fn = "translate" -> 2 [] fn = "synthesize" -> 3

\* the page elements that present audio
AudioElements ==
    {"success: conversion", "audio player", "metric: file size",
     "metric: output language", "metric: duration", "download link"}

\* C1: when the translation provider raises, the synthesizer is still called,
\* with the original text and the selected target language, and (synthesis
\* succeeding) the submission ends in Done with the translation warning shown.
C1_TranslationFailureFallsBack ==
    (CallsOf("translate") # <<>> /\ CallsOf("translate")[1].out.kind = "raise") =>
        /\ pc = "Synthesizing" => translated_text = Str(text_input)
        /\ Ended => Len(CallsOf("synthesize")) = 1
        /\ \A i \in 1..Len(CallsOf("synthesize")) :
               /\ CallsOf("synthesize")[i].args.text = Str(text_input)
               /\ CallsOf("synthesize")[i].args.lang = lang_code
               /\ CallsOf("synthesize")[i].out.kind = "ok" =>
                      /\ pc = "Done"
                      /\ "error: translation error" \in rendered

\* C2: a submission of an empty, whitespace-only or over-long text ends at
\* validation, in Failed, without any call of detection, translation or
\* synthesis.
C2_InvalidInputStopsAtValidation ==
    InvalidInput =>
        /\ calls = <<>>
        /\ ~trans_result.called
        /\ ~synth_result.called
        /\ pc \in {"Idle", "Validating", "Failed"}
        /\ pc = "Failed" =>
               /\ rendered # {}
               /\ rendered \subseteq {"error: enter some text", "error: text too long"}

\* C2 witness: an over-long text was submitted and rejected.
C2_Witness ==
    /\ pc = "Failed"
    /\ PyLen(text_input) > 5000
    /\ calls = <<>>

\* C3: when the synthesis provider raises, whatever the message, the
\* submission ends in Failed with the synthesis error shown and nothing of
\* the audio presentation.
C3_SynthesisFailureEndsFailed ==
    (CallsOf("synthesize") # <<>> /\ CallsOf("synthesize")[1].out.kind = "raise") =>
        /\ pc = "Failed"
        /\ "error: synthesis error" \in rendered
        /\ rendered \cap AudioElements = {}
        /\ synth_result.audio.none

\* C4: when the resolved source language equals the target language,
\* translate_text returns the original text, no error, and the translation
\* provider is not called.
C4_SameLanguageShortCircuit ==
    (trans_result.called /\ ResolvedFromLog = lang_code) =>
        /\ trans_result.text = Str(text_input)
        /\ trans_result.err = None
        /\ CallsOf("translate") = <<>>
        /\ translated_text = Str(text_input)

\* C4 witness: auto-detection failed, the fallback "en" is the target, and
\* translate_text has returned.
C4_Witness ==
    /\ trans_result.called
    /\ source_lang = "auto"
    /\ lang_code = "en"
    /\ CallsOf("detect")[1].out.kind = "raise"
    /\ text_input # <<>>

\* C5: with translation disabled, no detection and no translation call is
\* made, and the synthesizer is called with the form text and the selected
\* output language.
C5_DisabledTranslationGoesStraight ==
    ~enable_translation =>
        /\ CallsOf("detect") = <<>>
        /\ CallsOf("translate") = <<>>
        /\ ~trans_result.called
        /\ pc # "Translating"
        /\ (Ended /\ ~InvalidInput) => Len(CallsOf("synthesize")) = 1
        /\ \A i \in 1..Len(CallsOf("synthesize")) :
               /\ CallsOf("synthesize")[i].args.text = Str(text_input)
               /\ CallsOf("synthesize")[i].args.lang = lang_code

\* C5 witness: a submission without translation has produced audio.
C5_Witness ==
    /\ ~enable_translation
    /\ pc = "Done"
    /\ Len(CallsOf("synthesize")) = 1

\* C6: the voice variant given to the synthesizer is "com" whenever the
\* language is not "en", whatever accent the accent widget still holds.
C6_VariantIsDefaultUnlessEnglish ==
    /\ lang_code # "en" => tld = "com"
    /\ \A i \in 1..Len(CallsOf("synthesize")) :
           CallsOf("synthesize")[i].args.lang # "en" =>
               CallsOf("synthesize")[i].args.tld = "com"

\* C6 witness: the synthesizer was called for another language while the
\* accent widget holds a non-default accent chosen under English.
C6_Witness ==
    /\ CallsOf("synthesize") # <<>>
    /\ CallsOf("synthesize")[1].args.lang # "en"
    /\ selected_accent = "UK English"

\* C7: the triple translate_text returns carries a text or an error, never
\* both and never neither.
C7_ExactlyOneOfTextAndError ==
    trans_result.called =>
        ((~trans_result.text.none) # (trans_result.err # None))

\* C8: no submission ends in an unhandled exception.
C8_NoUnhandledFault == pc # "Crashed"

\* C9: translate_text works with a concrete source language: the chosen code,
\* or with "auto" the detected code, or "en" when detection fails; that code
\* is compared with the target and given to the provider, and a detection
\* failure is no error of the result.
C9_ResolverYieldsConcreteCode ==
    trans_result.called =>
        /\ (CallsOf("detect") # <<>>) <=> (source_lang = "auto")
        /\ Len(CallsOf("detect")) <= 1
        /\ trans_result.src # "auto"
        /\ trans_result.err = None => trans_result.src = ResolvedFromLog
        /\ (CallsOf("translate") = <<>>) <=> (ResolvedFromLog = lang_code)
        /\ \A i \in 1..Len(CallsOf("translate")) :
               CallsOf("translate")[i].args.source = ResolvedFromLog
        /\ trans_result.err # None =>
               /\ CallsOf("translate") # <<>>
               /\ CallsOf("translate")[1].out.kind = "raise"

\* C9 witness: detection raised, and the provider was called with source
\* "en".
C9_Witness ==
    /\ trans_result.called
    /\ source_lang = "auto"
    /\ CallsOf("detect")[1].out.kind = "raise"
    /\ CallsOf("translate") # <<>>
    /\ CallsOf("translate")[1].args.source = "en"

\* C10: a submission moves forward only: detection, translation and
\* synthesis are called in that order, each at most once, the first two only
\* with translation enabled, and the submission ends in Done or Failed.
C10_ForwardOnlyToDoneOrFailed ==
    /\ \A i, j \in 1..Len(calls) :
           i < j => StageRank(calls[i].fn) < StageRank(calls[j].fn)
    /\ ~enable_translation => CallsOf("translate") = <<>>
    /\ pc = "Translating" => calls = <<>>
    /\ pc = "Validating" => calls = <<>>
    /\ pc \in {"Idle", "Validating", "Translating", "Synthesizing", "Done", "Failed"}

====
